---------------------------- MODULE Spec2Model ----------------------------
(***************************************************************************)
(* Model of payjoin's BIP21 extension codecs:                              *)
(*   - core/uri/mod.rs: the pj / pjos query-parameter state machine        *)
(*     (deserialize_temp, finalize, serialize_params);                     *)
(*   - core/uri/url_ext.rs: the URL-fragment parameter store               *)
(*     (check_fragment_delimiter, get_param, set_param, parse_with_fragment*)
(*     and the typed accessors built on them).                             *)
(*                                                                         *)
(* Text is modelled as a sequence of one-character strings, so that        *)
(* splitting, case mapping, substring replacement and URL parsing are      *)
(* computed character by character as the code computes them.              *)
(***************************************************************************)
EXTENDS Integers, Sequences, FiniteSets, TLC

VARIABLES
    pj,         \* DeserializationState.pj : Option<Url>
    pjos,       \* DeserializationState.pjos : Option<OutputSubstitution>
    pc,         \* position of the parse run
    consumed,   \* the query parameters handed to deserialize_temp so far
    outcome,    \* what the parse run returned (Ok(extras) or Err(e))
    emitted,    \* the pairs serialize_params produced for the parsed value
    reparsed,   \* the outcome of parsing the emitted pairs again
    frag0,      \* the fragment of the Url the typed accessors are first called on
    cur_fragment,       \* that Url's fragment now : Option<&str>
    written,    \* the tokens the typed setters have handed to set_param
    last,       \* the latest accessor call and what it returned
    fpc,        \* "ready", or "panicked" once a setter has panicked
    latest,     \* per tag, the value the latest completed setter call wrote
    uri,        \* a parsed Uri<NetworkChecked> with MaybePayjoinExtras
    checked     \* what check_pj_supported returned for it

parseVars == <<pj, pjos, pc, consumed, outcome, emitted, reparsed>>
fragVars == <<frag0, cur_fragment, written, last, fpc, latest>>
uriVars == <<uri, checked>>
vars == <<pj, pjos, pc, consumed, outcome, emitted, reparsed,
          frag0, cur_fragment, written, last, fpc, latest, uri, checked>>

-----------------------------------------------------------------------------
(* Bounds of the model *)

\* A parse run hands at most MaxParams query parameters to deserialize_temp.
MaxParams == 3

\* The fragment the accessors start from holds at most MaxTokens tokens.
MaxTokens == 2

-----------------------------------------------------------------------------
(* Characters and text *)

Lower == <<"a","b","c","d","e","f","g","h","i","j","k","l","m",
           "n","o","p","q","r","s","t","u","v","w","x","y","z">>
Upper == <<"A","B","C","D","E","F","G","H","I","J","K","L","M",
           "N","O","P","Q","R","S","T","U","V","W","X","Y","Z">>
Digits == {"0","1","2","3","4","5","6","7","8","9"}

Range(s) == {s[i] : i \in DOMAIN s}

LowerSet == Range(Lower)
UpperSet == Range(Upper)

\* char::is_lowercase / char::is_uppercase, on the ASCII range
IsLowercase(c) == c \in LowerSet
IsUppercase(c) == c \in UpperSet

LetterIndex(tbl, c) == CHOOSE i \in DOMAIN tbl : tbl[i] = c

\* char::to_ascii_uppercase / str::to_uppercase, one character
ToUpperChar(c) == IF IsLowercase(c) THEN Upper[LetterIndex(Lower, c)] ELSE c
ToLowerChar(c) == IF IsUppercase(c) THEN Lower[LetterIndex(Upper, c)] ELSE c

\* str::to_uppercase
to_uppercase(s) == [i \in DOMAIN s |-> ToUpperChar(s[i])]
to_lowercase(s) == [i \in DOMAIN s |-> ToLowerChar(s[i])]

\* Position of the first c in s, 0 when there is none
IndexOf(s, c) ==
    LET hits == {i \in DOMAIN s : s[i] = c}
    IN  IF hits = {} THEN 0 ELSE CHOOSE i \in hits : \A j \in hits : i <= j

\* Position of the last c in s, 0 when there is none
LastIndexOf(s, c) ==
    LET hits == {i \in DOMAIN s : s[i] = c}
    IN  IF hits = {} THEN 0 ELSE CHOOSE i \in hits : \A j \in hits : i >= j

\* Position of the first character of s that lies in cs, Len(s)+1 when none
FirstOf(s, cs) ==
    IF \E i \in DOMAIN s : s[i] \in cs
    THEN CHOOSE i \in DOMAIN s : s[i] \in cs /\ \A j \in 1..(i-1) : s[j] \notin cs
    ELSE Len(s) + 1

Drop(s, n) == SubSeq(s, n + 1, Len(s))
Take(s, n) == SubSeq(s, 1, n)

\* str::starts_with / str::ends_with
starts_with(s, p) == Len(p) <= Len(s) /\ Take(s, Len(p)) = p
ends_with(s, p) == Len(p) <= Len(s) /\ Drop(s, Len(s) - Len(p)) = p

\* Position at which pat first occurs in s, 0 when it does not
FindSub(s, pat) ==
    LET hits == {i \in 1..(Len(s) - Len(pat) + 1) : SubSeq(s, i, i + Len(pat) - 1) = pat}
    IN  IF hits = {} THEN 0 ELSE CHOOSE i \in hits : \A j \in hits : i <= j

\* str::replacen(from, to, 1): the first occurrence of from replaced by to
replacen1(s, from, to) ==
    LET at == FindSub(s, from)
    IN  IF at = 0 THEN s
        ELSE Take(s, at - 1) \o to \o Drop(s, at - 1 + Len(from))

\* Option<T>
None == [some |-> FALSE, val |-> <<>>]
Some(v) == [some |-> TRUE, val |-> v]

\* Result<T, E>
Ok(v) == [ok |-> TRUE, val |-> v]
Err(e) == [ok |-> FALSE, val |-> e]

-----------------------------------------------------------------------------
(* The Url value (url::Url), for the special schemes http, https and ftp,  *)
(* with an optional username, a domain host, a path and an optional        *)
(* fragment.  Ports, passwords, queries and IP hosts are not part of the   *)
(* inputs of this model.                                                   *)

Url(scheme, username, host, path, fragment) ==
    [scheme |-> scheme, username |-> username, host |-> host,
     path |-> path, fragment |-> fragment]

SpecialSchemes ==
    { <<"h","t","t","p">>, <<"h","t","t","p","s">>, <<"f","t","p">> }

\* Characters a scheme may hold after its first letter
IsSchemeChar(c) ==
    IsLowercase(c) \/ IsUppercase(c) \/ c \in Digits \/ c \in {"+", "-", "."}

\* Code points the URL standard forbids in a domain
ForbiddenHostChars ==
    {" ", "#", "/", ":", "<", ">", "?", "@", "[", "\\", "]", "^", "|", "%"}

\* Url::as_str: the serialization of a Url
as_str(u) ==
    u.scheme \o <<":", "/", "/">>
      \o (IF u.username = <<>> THEN <<>> ELSE u.username \o <<"@">>)
      \o u.host \o u.path
      \o (IF u.fragment.some THEN <<"#">> \o u.fragment.val ELSE <<>>)

\* Leading '/' characters of s removed
RECURSIVE SkipSlashes(_)
SkipSlashes(s) ==
    IF s # <<>> /\ Head(s) = "/" THEN SkipSlashes(Tail(s)) ELSE s

\* Url::parse on an absolute URL text with a special scheme (the texts this
\* model feeds it have no other): the scheme runs to the first ':' and is
\* lower-cased; the slashes after it are skipped, the
\* authority runs to the first '/' or '#', its part after the last '@' is the
\* host, which is lower-cased and must be a non-empty domain; an empty path
\* becomes "/"; the fragment is the text after the first '#', kept as it is.
UrlParse(text) ==
    LET colon == IndexOf(text, ":")
        schemeText == Take(text, colon - 1)
    IN  IF \/ colon <= 1
           \/ ~(IsLowercase(text[1]) \/ IsUppercase(text[1]))
           \/ \E i \in DOMAIN schemeText : ~IsSchemeChar(schemeText[i])
        THEN Err("RelativeUrlWithoutBase")
        ELSE
        LET scheme == to_lowercase(schemeText)
            rest == SkipSlashes(Drop(text, colon))
            authEnd == FirstOf(rest, {"/", "#"})
            authority == Take(rest, authEnd - 1)
            at == LastIndexOf(authority, "@")
            username == Take(authority, at - 1)
            hostText == Drop(authority, at)
            tail == Drop(rest, authEnd - 1)
            hash == IndexOf(tail, "#")
            pathText == IF hash = 0 THEN tail ELSE Take(tail, hash - 1)
            fragment == IF hash = 0 THEN None ELSE Some(Drop(tail, hash))
        IN  IF hostText = <<>> THEN Err("EmptyHost")
            ELSE IF \E i \in DOMAIN hostText : hostText[i] \in ForbiddenHostChars
            THEN Err("InvalidDomainCharacter")
            ELSE Ok(Url(scheme, username, to_lowercase(hostText),
                        IF pathText = <<>> THEN <<"/">> ELSE pathText,
                        fragment))

\* Url::scheme, Url::host_str, Url::domain, Url::fragment
scheme(u) == u.scheme
host_str(u) == u.host
domain(u) == Some(u.host)
fragment(u) == u.fragment

\* Option::unwrap_or_default on Option<&str>
unwrap_or_default(o) == IF o.some THEN o.val ELSE <<>>

-----------------------------------------------------------------------------
(* core/uri/mod.rs: the pj / pjos query-parameter state machine *)

\* InternalPjParseError
PjErr(kind, arg) == [kind |-> kind, arg |-> arg]
NotUtf8 == PjErr("NotUtf8", "")
BadPjOs == PjErr("BadPjOs", "")
MissingEndpoint == PjErr("MissingEndpoint", "")
UnsecureEndpoint == PjErr("UnsecureEndpoint", "")
DuplicateParams(key) == PjErr("DuplicateParams", key)
BadEndpoint(e) == PjErr("BadEndpoint", e)

\* bitcoin_uri::Param: the percent-decoded bytes of a value; utf8 tells whether
\* Cow::try_from(value) succeeds, text is the decoded text when it does
Param(utf8, text) == [utf8 |-> utf8, text |-> text]

\* Mutant: rejects a fragment only when all of its characters are lowercase
parse_with_fragment_all(endpoint) ==
    LET parsed == UrlParse(endpoint)
    IN  IF ~parsed.ok THEN Err("UrlParse")
        ELSE IF /\ fragment(parsed.val).some
                /\ fragment(parsed.val).val # << >>
                /\ \A i \in DOMAIN fragment(parsed.val).val :
                        IsLowercase(fragment(parsed.val).val[i])
        THEN Err("LowercaseFragment")
        ELSE Ok(parsed.val)

\* parse_with_fragment (feature v2): Url::parse, then no lowercase letter may
\* occur in the fragment
parse_with_fragment(endpoint) ==
    LET parsed == UrlParse(endpoint)
    IN  IF ~parsed.ok THEN Err("UrlParse")
        ELSE IF /\ fragment(parsed.val).some
                /\ \E i \in DOMAIN fragment(parsed.val).val :
                        IsLowercase(fragment(parsed.val).val[i])
        THEN Err("LowercaseFragment")
        ELSE Ok(parsed.val)

\* DeserializationState { pj, pjos } and its Default
DeserializationState(p, o) == [pj |-> p, pjos |-> o]
DefaultState == DeserializationState(None, None)

\* is_param_known
is_param_known(param) == param \in {"pj", "pjos"}

\* What deserialize_temp leaves in self, and what it returns
Step(st, ret) == [st |-> st, ret |-> ret]

\* Mutant: a later pj or pjos replaces the earlier one
deserialize_temp_last_wins(self, key, value) ==
    IF key = "pj" THEN
        IF ~value.utf8 THEN Step(self, Err(NotUtf8))
        ELSE LET url == parse_with_fragment(value.text)
             IN  IF ~url.ok THEN Step(self, Err(BadEndpoint(url.val)))
                 ELSE Step(DeserializationState(Some(url.val), self.pjos), Ok("Known"))
    ELSE IF key = "pjos" THEN
        IF ~value.utf8 THEN Step(self, Err(BadPjOs))
        ELSE IF value.text = <<"0">>
            THEN Step(DeserializationState(self.pj, Some("Disabled")), Ok("Known"))
        ELSE IF value.text = <<"1">>
            THEN Step(DeserializationState(self.pj, Some("Enabled")), Ok("Known"))
        ELSE Step(self, Err(BadPjOs))
    ELSE Step(self, Ok("Unknown"))

\* Mutant: a pjos presented before pj is passed over as an unknown parameter
deserialize_temp_pjos_after_pj(self, key, value) ==
    IF key = "pj" /\ ~self.pj.some THEN
        IF ~value.utf8 THEN Step(self, Err(NotUtf8))
        ELSE LET url == parse_with_fragment(value.text)
             IN  IF ~url.ok THEN Step(self, Err(BadEndpoint(url.val)))
                 ELSE Step(DeserializationState(Some(url.val), self.pjos), Ok("Known"))
    ELSE IF key = "pj" THEN Step(self, Err(DuplicateParams("pj")))
    ELSE IF key = "pjos" /\ ~self.pj.some THEN Step(self, Ok("Unknown"))
    ELSE IF key = "pjos" /\ ~self.pjos.some THEN
        IF ~value.utf8 THEN Step(self, Err(BadPjOs))
        ELSE IF value.text = <<"0">>
            THEN Step(DeserializationState(self.pj, Some("Disabled")), Ok("Known"))
        ELSE IF value.text = <<"1">>
            THEN Step(DeserializationState(self.pj, Some("Enabled")), Ok("Known"))
        ELSE Step(self, Err(BadPjOs))
    ELSE IF key = "pjos" THEN Step(self, Err(DuplicateParams("pjos")))
    ELSE Step(self, Ok("Unknown"))

\* Mutant: the keys are compared without regard to case
deserialize_temp_any_case(self, key, value) ==
    IF key \in {"pj", "PJ"} /\ ~self.pj.some THEN
        IF ~value.utf8 THEN Step(self, Err(NotUtf8))
        ELSE LET url == parse_with_fragment(value.text)
             IN  IF ~url.ok THEN Step(self, Err(BadEndpoint(url.val)))
                 ELSE Step(DeserializationState(Some(url.val), self.pjos), Ok("Known"))
    ELSE IF key \in {"pj", "PJ"} THEN Step(self, Err(DuplicateParams("pj")))
    ELSE IF key \in {"pjos", "Pjos"} /\ ~self.pjos.some THEN
        IF ~value.utf8 THEN Step(self, Err(BadPjOs))
        ELSE IF value.text = <<"0">>
            THEN Step(DeserializationState(self.pj, Some("Disabled")), Ok("Known"))
        ELSE IF value.text = <<"1">>
            THEN Step(DeserializationState(self.pj, Some("Enabled")), Ok("Known"))
        ELSE Step(self, Err(BadPjOs))
    ELSE IF key \in {"pjos", "Pjos"} THEN Step(self, Err(DuplicateParams("pjos")))
    ELSE Step(self, Ok("Unknown"))

\* deserialize_temp(&mut self, key, value), in the build with feature "v2"
\* (directory-mediated parameters; url_ext.rs is compiled only there): the
\* state it leaves and what it returns (Ok(Known), Ok(Unknown) or Err(e))

deserialize_temp(self, key, value) ==
    IF key = "pj" /\ ~self.pj.some THEN
        IF ~value.utf8 THEN Step(self, Err(NotUtf8))
        ELSE LET url == parse_with_fragment(value.text)
             IN  IF ~url.ok THEN Step(self, Err(BadEndpoint(url.val)))
                 ELSE Step(DeserializationState(Some(url.val), self.pjos), Ok("Known"))
    ELSE IF key = "pj" THEN Step(self, Err(DuplicateParams("pj")))
    ELSE IF key = "pjos" /\ ~self.pjos.some THEN
        IF ~value.utf8 THEN Step(self, Err(BadPjOs))
        ELSE IF value.text = <<"0">>
            THEN Step(DeserializationState(self.pj, Some("Disabled")), Ok("Known"))
        ELSE IF value.text = <<"1">>
            THEN Step(DeserializationState(self.pj, Some("Enabled")), Ok("Known"))
        ELSE Step(self, Err(BadPjOs))
    ELSE IF key = "pjos" THEN Step(self, Err(DuplicateParams("pjos")))
    ELSE Step(self, Ok("Unknown"))

\* MaybePayjoinExtras: Supported(PayjoinExtras { endpoint, output_substitution })
\* or Unsupported
Supported(endpoint, output_substitution) ==
    [tag |-> "Supported", endpoint |-> endpoint,
     output_substitution |-> output_substitution]
Unsupported ==
    [tag |-> "Unsupported", endpoint |-> None, output_substitution |-> "None"]

HTTP == <<"h","t","t","p">>
HTTPS == <<"h","t","t","p","s">>
DotOnion == <<".","o","n","i","o","n">>

\* Mutant: plain http is accepted for every host
IsSecureEndpoint_any_http(endpoint) ==
    scheme(endpoint) = HTTPS \/ scheme(endpoint) = HTTP

\* The transport-security test of finalize
IsSecureEndpoint(endpoint) ==
    \/ scheme(endpoint) = HTTPS
    \/ /\ scheme(endpoint) = HTTP
       /\ ends_with(unwrap_or_default(domain(endpoint)), DotOnion)

\* Mutant: an absent pjos defaults to Disabled
finalize_default_disabled(self) ==
    IF ~self.pj.some /\ ~self.pjos.some THEN Ok(Unsupported)
    ELSE IF ~self.pj.some THEN Err(MissingEndpoint)
    ELSE IF IsSecureEndpoint(self.pj.val)
         THEN Ok(Supported(self.pj.val,
                           IF self.pjos.some THEN self.pjos.val ELSE "Disabled"))
         ELSE Err(UnsecureEndpoint)

\* Mutant: a pjos without a pj is taken for an unsupported URI
finalize_no_missing_endpoint(self) ==
    IF ~self.pj.some THEN Ok(Unsupported)
    ELSE IF IsSecureEndpoint(self.pj.val)
         THEN Ok(Supported(self.pj.val,
                           IF self.pjos.some THEN self.pjos.val ELSE "Enabled"))
         ELSE Err(UnsecureEndpoint)

\* finalize(self)
finalize(self) ==
    IF ~self.pj.some /\ ~self.pjos.some THEN Ok(Unsupported)
    ELSE IF ~self.pj.some THEN Err(MissingEndpoint)
    ELSE IF IsSecureEndpoint(self.pj.val)
         THEN Ok(Supported(self.pj.val,
                           IF self.pjos.some THEN self.pjos.val ELSE "Enabled"))
         ELSE Err(UnsecureEndpoint)

\* serialize_params of &PayjoinExtras: the endpoint text with the first
\* occurrence of the scheme, then the first occurrence of the host, upper-cased
EndpointStr(endpoint) ==
    replacen1(replacen1(as_str(endpoint),
                        scheme(endpoint), to_uppercase(scheme(endpoint))),
              host_str(endpoint), to_uppercase(host_str(endpoint)))

\* Mutant: the policy is always emitted, Enabled as pjos=1
SerializeExtras_explicit_pjos(extras) ==
    << <<"pjos", IF extras.output_substitution = "Disabled"
                 THEN <<"0">> ELSE <<"1">> >> >>
    \o << <<"pj", EndpointStr(extras.endpoint)>> >>

SerializeExtras(extras) ==
    (IF extras.output_substitution = "Disabled"
     THEN << <<"pjos", <<"0">> >> >> ELSE << >>)
    \o << <<"pj", EndpointStr(extras.endpoint)>> >>

\* serialize_params of &MaybePayjoinExtras
serialize_params(self) ==
    IF self.tag = "Supported" THEN SerializeExtras(self) ELSE << >>

\* A whole parse of a list of (key, text) pairs: deserialize_temp on each pair in
\* order, stopping at the first error, then finalize
RECURSIVE ParseFrom(_, _)
ParseFrom(st, pairs) ==
    IF pairs = << >> THEN finalize(st)
    ELSE LET r == deserialize_temp(st, Head(pairs)[1], Param(TRUE, Head(pairs)[2]))
         IN  IF r.ret.ok THEN ParseFrom(r.st, Tail(pairs))
             ELSE Err(r.ret.val)

\* A whole parse run on a sequence of (key, value) parameters, from state st:
\* deserialize_temp on each parameter in presentation order until one fails,
\* then finalize
RECURSIVE ParseRun(_, _)
ParseRun(st, params) ==
    IF params = << >> THEN finalize(st)
    ELSE LET r == deserialize_temp(st, Head(params)[1], Head(params)[2])
         IN  IF r.ret.ok THEN ParseRun(r.st, Tail(params))
             ELSE Err(r.ret.val)

\* The state a run is in after the parameters params, all accepted, from st
RECURSIVE StateAfter(_, _)
StateAfter(st, params) ==
    IF params = << >> THEN st
    ELSE StateAfter(deserialize_temp(st, Head(params)[1], Head(params)[2]).st,
                    Tail(params))

-----------------------------------------------------------------------------
(* The parsed URI (bitcoin_uri::Uri with this module's extras) and          *)
(* check_pj_supported                                                       *)

\* bitcoin_uri::Uri { address, amount, label, message, extras }
Uri(address, amount, label, message, extras) ==
    [address |-> address, amount |-> amount, label |-> label,
     message |-> message, extras |-> extras]

\* PayjoinExtras { endpoint, output_substitution }, the extras of a PjUri
PayjoinExtras(endpoint, output_substitution) ==
    [endpoint |-> endpoint, output_substitution |-> output_substitution]

\* NoExtras, the extras of a plain bitcoin_uri::Uri
NoExtras == [none |-> TRUE]

\* MaybePayjoinExtras::pj_is_supported
pj_is_supported(self) == self.tag = "Supported"

\* Mutant: check_pj_supported that does not carry the label over when the
\* extras are Unsupported
check_pj_supported_drops_label(self) ==
    IF self.extras.tag = "Supported"
    THEN Ok(Uri(self.address, self.amount, self.label, self.message,
                PayjoinExtras(self.extras.endpoint, self.extras.output_substitution)))
    ELSE Err(Uri(self.address, self.amount, None, self.message, NoExtras))

\* UriExt::check_pj_supported for Uri<NetworkChecked>: Ok(PjUri) built with
\* with_extras(address, payjoin), Err(Box<Uri>) built with Uri::new(address),
\* amount, label and message assigned from self in both
check_pj_supported(self) ==
    IF self.extras.tag = "Supported"
    THEN Ok(Uri(self.address, self.amount, self.label, self.message,
                PayjoinExtras(self.extras.endpoint, self.extras.output_substitution)))
    ELSE Err(Uri(self.address, self.amount, self.label, self.message, NoExtras))

\* No URI: the specifications of the parse run and of the accessors have none
NoUri == Uri(<< >>, None, None, None, Unsupported)

-----------------------------------------------------------------------------
(* Inputs of a parse run *)

FTP == <<"f","t","p">>
EX1A == <<"E","X","1","A">>

SchemeTexts == {HTTPS, to_uppercase(HTTPS), HTTP, FTP}
Usernames == {<< >>, <<"a">>}
HostTexts == {<<"a">>, <<"a">> \o DotOnion}

\* s with its i-th character lower-cased
LowerAt(s, i) == [s EXCEPT ![i] = ToLowerChar(s[i])]

\* No fragment or an upper-case fragment
PjFragments == {None, Some(EX1A)}

\* The upper-case fragment with one character lower-cased, at each position
LowercaseFragments == {Some(LowerAt(EX1A, i)) : i \in DOMAIN EX1A} \ {Some(EX1A)}

\* URL texts of every scheme, username, host and fragment above, URL texts
\* with a lowercase letter in the fragment, and a text that is no absolute URL
PjTexts ==
    {as_str(Url(s, u, h, << >>, f)) :
        s \in SchemeTexts, u \in Usernames, h \in HostTexts, f \in PjFragments}
    \cup {as_str(Url(s, << >>, <<"a">>, << >>, f)) :
        s \in {HTTPS, HTTP}, f \in LowercaseFragments}
    \cup {<<"a">>}

PjValues == {Param(TRUE, t) : t \in PjTexts} \cup {Param(FALSE, << >>)}
PjosValues == {Param(TRUE, <<c>>) : c \in {"0", "1", "2"}} \cup {Param(FALSE, << >>)}
UnknownKeys == {"amount", "PJ", "Pjos"}

\* The (key, value) pairs a URI's query may hold
QueryParams ==
    {<<"pj", v>> : v \in PjValues}
    \cup {<<"pjos", v>> : v \in PjosValues}
    \cup {<<k, Param(TRUE, <<"1">>)>> : k \in UnknownKeys}

-----------------------------------------------------------------------------
(* The parse run, as bitcoin_uri drives it: deserialize_temp on each query   *)
(* parameter in presentation order until one fails, then finalize.  The      *)
(* parsed value may then be serialized and the emitted pairs parsed again.   *)

\* No accessor call yet
NoCall == [op |-> "none", arg |-> None, res |-> Ok(None)]

\* Nothing written yet
NoneWritten == [EX |-> None, OH |-> None, RK |-> None]

Init ==
    /\ frag0 = None /\ cur_fragment = None /\ written = {} /\ last = NoCall /\ fpc = "ready"
    /\ latest = NoneWritten
    /\ pj = DefaultState.pj
    /\ pjos = DefaultState.pjos
    /\ pc = "accumulating"
    /\ consumed = << >>
    /\ outcome = None
    /\ emitted = None
    /\ reparsed = None
    /\ uri = NoUri /\ checked = None

\* Mutant: the run goes on after a parameter was rejected
DeserializeTemp_keeps_going(key, value) ==
    /\ pc = "accumulating"
    /\ Len(consumed) < MaxParams
    /\ LET r == deserialize_temp(DeserializationState(pj, pjos), key, value)
       IN  /\ pj' = r.st.pj
           /\ pjos' = r.st.pjos
           /\ consumed' = Append(consumed, <<key, value>>)
           /\ IF r.ret.ok
              THEN UNCHANGED <<pc, outcome>>
              ELSE pc' = pc /\ outcome' = Some(Err(r.ret.val))
    /\ UNCHANGED <<emitted, reparsed>>
    /\ UNCHANGED fragVars
    /\ UNCHANGED uriVars

DeserializeTemp(key, value) ==
    /\ pc = "accumulating"
    /\ Len(consumed) < MaxParams
    /\ LET r == deserialize_temp(DeserializationState(pj, pjos), key, value)
       IN  /\ pj' = r.st.pj
           /\ pjos' = r.st.pjos
           /\ consumed' = Append(consumed, <<key, value>>)
           /\ IF r.ret.ok
              THEN UNCHANGED <<pc, outcome>>
              ELSE pc' = "failed" /\ outcome' = Some(Err(r.ret.val))
    /\ UNCHANGED <<emitted, reparsed>>
    /\ UNCHANGED fragVars
    /\ UNCHANGED uriVars

Finalize ==
    /\ pc = "accumulating"
    /\ outcome' = Some(finalize(DeserializationState(pj, pjos)))
    /\ pc' = "finalized"
    /\ UNCHANGED <<pj, pjos, consumed, emitted, reparsed>>
    /\ UNCHANGED fragVars
    /\ UNCHANGED uriVars

Serialize ==
    /\ pc = "finalized"
    /\ outcome.val.ok
    /\ emitted' = Some(serialize_params(outcome.val.val))
    /\ pc' = "serialized"
    /\ UNCHANGED <<pj, pjos, consumed, outcome, reparsed>>
    /\ UNCHANGED fragVars
    /\ UNCHANGED uriVars

Reparse ==
    /\ pc = "serialized"
    /\ reparsed' = Some(ParseFrom(DefaultState, emitted.val))
    /\ pc' = "reparsed"
    /\ UNCHANGED <<pj, pjos, consumed, outcome, emitted>>
    /\ UNCHANGED fragVars
    /\ UNCHANGED uriVars

Next ==
    \/ \E p \in QueryParams : DeserializeTemp(p[1], p[2])
    \/ Finalize
    \/ Serialize
    \/ Reparse

Spec == Init /\ [][Next]_vars

-----------------------------------------------------------------------------
(* core/uri/url_ext.rs: the fragment parameter store *)

\* ParseFragmentError
FragErr(kind, arg) == [kind |-> kind, arg |-> arg]
AmbiguousDelimiter == FragErr("AmbiguousDelimiter", "")
InvalidChar(c) == FragErr("InvalidChar", c)

\* The bytes check_fragment_delimiter lets through
FragmentBytes == Digits \cup UpperSet \cup {"-", "+"}
IsFragmentByte(c) == c \in FragmentBytes

\* str::contains(char)
contains(s, c) == \E i \in DOMAIN s : s[i] = c

\* check_fragment_delimiter that answers '-' for a fragment with '+' alone
check_fragment_delimiter_no_legacy(frag) ==
    LET bad == {i \in DOMAIN frag : ~IsFragmentByte(frag[i])}
    IN  IF bad # {}
        THEN Err(InvalidChar(frag[CHOOSE i \in bad : \A j \in bad : i <= j]))
        ELSE IF contains(frag, "-") /\ contains(frag, "+") THEN Err(AmbiguousDelimiter)
        ELSE Ok("-")

\* check_fragment_delimiter without the ambiguity error: '+' wins
check_fragment_delimiter_plus_wins(frag) ==
    LET bad == {i \in DOMAIN frag : ~IsFragmentByte(frag[i])}
    IN  IF bad # {}
        THEN Err(InvalidChar(frag[CHOOSE i \in bad : \A j \in bad : i <= j]))
        ELSE IF contains(frag, "+") THEN Ok("+")
        ELSE Ok("-")

\* check_fragment_delimiter(fragment)
check_fragment_delimiter(frag) ==
    LET has_dash == contains(frag, "-")
        has_plus == contains(frag, "+")
        bad == {i \in DOMAIN frag : ~IsFragmentByte(frag[i])}
    IN  IF bad # {}
        THEN Err(InvalidChar(frag[CHOOSE i \in bad : \A j \in bad : i <= j]))
        ELSE IF has_dash /\ has_plus THEN Err(AmbiguousDelimiter)
        ELSE IF has_plus THEN Ok("+")
        ELSE Ok("-")

\* str::split(delim): the pieces between the delimiters, empty ones included
RECURSIVE split(_, _)
split(s, delim) ==
    LET at == IndexOf(s, delim)
    IN  IF at = 0 THEN <<s>>
        ELSE <<Take(s, at - 1)>> \o split(Drop(s, at), delim)

\* The last element of ps that starts with prefix
RECURSIVE FirstWithPrefix_last(_, _)
FirstWithPrefix_last(ps, prefix) ==
    IF ps = << >> THEN None
    ELSE IF FirstWithPrefix_last(Tail(ps), prefix).some
    THEN FirstWithPrefix_last(Tail(ps), prefix)
    ELSE IF starts_with(Head(ps), prefix) THEN Some(Head(ps))
    ELSE None

\* The first element of ps that starts with prefix
RECURSIVE FirstWithPrefix(_, _)
FirstWithPrefix(ps, prefix) ==
    IF ps = << >> THEN None
    ELSE IF starts_with(Head(ps), prefix) THEN Some(Head(ps))
    ELSE FirstWithPrefix(Tail(ps), prefix)

\* get_param that reports absence, before it looks at the structure, when the
\* prefix occurs nowhere in the fragment
get_param_absent_first(url_fragment, prefix) ==
    IF url_fragment.some /\ FindSub(url_fragment.val, prefix) # 0
    THEN LET delim == check_fragment_delimiter(url_fragment.val)
         IN  IF ~delim.ok THEN delim
             ELSE Ok(FirstWithPrefix(split(url_fragment.val, delim.val), prefix))
    ELSE Ok(None)

\* get_param(url, prefix), on the url's fragment
get_param(url_fragment, prefix) ==
    IF url_fragment.some
    THEN LET delim == check_fragment_delimiter(url_fragment.val)
         IN  IF ~delim.ok THEN delim
             ELSE Ok(FirstWithPrefix(split(url_fragment.val, delim.val), prefix))
    ELSE Ok(None)

\* The order of the ASCII codes of the characters of this model
AsciiOrder ==
    <<"#", "%", "+", "-", ".", "/",
      "0", "1", "2", "3", "4", "5", "6", "7", "8", "9", ":", "@">>
    \o Upper \o <<"_">> \o Lower
Code(c) == CHOOSE i \in DOMAIN AsciiOrder : AsciiOrder[i] = c

\* Ord for str: a < b, byte by byte
StrLess(a, b) ==
    \E i \in 1..Len(b) :
        /\ \A j \in 1..(i-1) : j <= Len(a) /\ a[j] = b[j]
        /\ (i > Len(a) \/ Code(a[i]) < Code(b[i]))

\* param.split('1').next().unwrap_or(param): the text before the first '1'
KeyOf(param) ==
    IF IndexOf(param, "1") = 0 THEN param ELSE Take(param, IndexOf(param, "1") - 1)

\* BTreeMap<&str, &str>: insert, collect from (key, param) pairs, values in
\* ascending key order
EmptyMap == [k \in {} |-> << >>]
\* BTreeMap::insert that keeps the value a key already has
MapInsert_keep_old(m, k, v) ==
    [x \in DOMAIN m \cup {k} |-> IF x \in DOMAIN m THEN m[x] ELSE v]

MapInsert(m, k, v) == [x \in DOMAIN m \cup {k} |-> IF x = k THEN v ELSE m[x]]

RECURSIVE MapCollect(_, _)
MapCollect(m, ps) ==
    IF ps = << >> THEN m
    ELSE MapCollect(MapInsert(m, KeyOf(Head(ps)), Head(ps)), Tail(ps))

\* BTreeMap::values in descending key order
RECURSIVE MapValues_descending(_)
MapValues_descending(m) ==
    IF DOMAIN m = {} THEN << >>
    ELSE LET k == CHOOSE k \in DOMAIN m : \A o \in DOMAIN m \ {k} : StrLess(o, k)
         IN  <<m[k]>> \o MapValues_descending([x \in DOMAIN m \ {k} |-> m[x]])

RECURSIVE MapValues(_)
MapValues(m) ==
    IF DOMAIN m = {} THEN << >>
    ELSE LET k == CHOOSE k \in DOMAIN m : \A o \in DOMAIN m \ {k} : StrLess(k, o)
         IN  <<m[k]>> \o MapValues([x \in DOMAIN m \ {k} |-> m[x]])

\* [&str]::join(sep)
RECURSIVE join(_, _)
join(ps, sep) ==
    IF ps = << >> THEN << >>
    ELSE IF Len(ps) = 1 THEN Head(ps)
    ELSE Head(ps) \o sep \o join(Tail(ps), sep)

\* Iterator::filter(|param| !param.is_empty())
NonEmpty(ps) == SelectSeq(ps, LAMBDA x : x # << >>)

\* What a call that may panic gives: the new fragment, or the panic
Panic(e) == [ok |-> FALSE, val |-> [kind |-> "Panic", arg |-> e]]

\* set_param that keeps the tokens in the order they had and puts the new one
\* last, instead of ordering them by key
set_param_unsorted(url_fragment, new_param) ==
    LET frag == IF url_fragment.some THEN url_fragment.val ELSE << >>
        delim == check_fragment_delimiter(frag)
    IN  IF ~delim.ok THEN Panic(delim.val)
        ELSE LET old == NonEmpty(split(frag, delim.val))
                 kept == SelectSeq(old, LAMBDA x : KeyOf(x) # KeyOf(new_param))
             IN  Ok(Some(join(kept \o <<new_param>>, <<"-">>)))

\* set_param that joins the tokens with the delimiter the fragment had
set_param_keep_delimiter(url_fragment, new_param) ==
    LET frag == IF url_fragment.some THEN url_fragment.val ELSE << >>
        delim == check_fragment_delimiter(frag)
    IN  IF ~delim.ok THEN Panic(delim.val)
        ELSE LET params == MapInsert(MapCollect(EmptyMap, NonEmpty(split(frag, delim.val))),
                                     KeyOf(new_param), new_param)
             IN  Ok(Some(join(MapValues(params), <<delim.val>>)))

\* Mutant: set_param that keeps nothing but the token it is given
set_param_drop_others(url_fragment, new_param) ==
    LET frag == IF url_fragment.some THEN url_fragment.val ELSE << >>
        delim == check_fragment_delimiter(frag)
    IN  IF ~delim.ok THEN Panic(delim.val)
        ELSE Ok(Some(new_param))

\* set_param(url, new_param), on the url's fragment: the fragment it sets, or
\* the panic of expect("set_param must be called on a URL with a valid fragment")
set_param(url_fragment, new_param) ==
    LET frag == IF url_fragment.some THEN url_fragment.val ELSE << >>
        delim == check_fragment_delimiter(frag)
    IN  IF ~delim.ok THEN Panic(delim.val)
        ELSE LET params == MapInsert(MapCollect(EmptyMap, NonEmpty(split(frag, delim.val))),
                                     KeyOf(new_param), new_param)
             IN  IF DOMAIN params = {} THEN Ok(None)
                 ELSE Ok(Some(join(MapValues(params), <<"-">>)))

-----------------------------------------------------------------------------
(* The codecs the typed accessors call: crate::bech32::nochecksum (bech32    *)
(* text without its checksum), the consensus encoding of a u32, and the key  *)
(* types crate::hpke::HpkePublicKey and crate::ohttp::OhttpKeys.             *)

\* The bech32 character set, upper case: the character of each 5-bit value
Charset ==
    <<"Q","P","Z","R","Y","9","X","8","G","F","2","T","V","D","W","0",
      "S","3","J","N","5","4","K","H","C","E","6","M","U","A","7","L">>

\* The 5-bit value of each character of the set
CharsetValue ==
    [c \in Range(Charset) |-> (CHOOSE i \in DOMAIN Charset : Charset[i] = c) - 1]

Pow2(n) == <<1, 2, 4, 8, 16, 32, 64, 128, 256, 512, 1024, 2048>>[n + 1]

\* The i-th value of a sequence, 0 past its end
ValueAt0(vals, i) == IF i \in DOMAIN vals THEN vals[i] ELSE 0

\* The i-th group of to_w bits of the bit stream of a sequence of from_w-bit
\* values (most significant bit first, zero bits past its end), as a number:
\* cut out of the 2 bytes, or the 3 5-bit values, that hold it
Group(vals, from_w, to_w, i) ==
    LET start == to_w * (i - 1)
        first == (start \div from_w) + 1
        offset == start % from_w
    IN  IF to_w = 5
        THEN ((256 * ValueAt0(vals, first) + ValueAt0(vals, first + 1))
                 \div Pow2(11 - offset)) % 32
        ELSE ((1024 * ValueAt0(vals, first) + 32 * ValueAt0(vals, first + 1)
                 + ValueAt0(vals, first + 2)) \div Pow2(7 - offset)) % 256

\* nochecksum::encode(hrp, bytes): the tag, '1', and the bytes regrouped into
\* 5-bit values (the last one padded with zero bits), upper case
nochecksum_encode(hrp, bytes) ==
    hrp \o <<"1">> \o
    [i \in 1..((8 * Len(bytes) + 4) \div 5) |-> Charset[Group(bytes, 8, 5, i) + 1]]

\* Mutant: the tag ends at the first '1'
nochecksum_decode_first_separator(text) ==
    LET sep == IndexOf(text, "1")
        hrp == Take(text, sep - 1)
        data == Drop(text, sep)
        fes == << >> \o [i \in DOMAIN data |->
                            IF ToUpperChar(data[i]) \in DOMAIN CharsetValue
                            THEN CharsetValue[ToUpperChar(data[i])] ELSE 0]
    IN  IF \/ sep <= 1
           \/ \E i \in DOMAIN data : ToUpperChar(data[i]) \notin DOMAIN CharsetValue
           \/ /\ \E i \in DOMAIN text : IsLowercase(text[i])
              /\ \E i \in DOMAIN text : IsUppercase(text[i])
        THEN Err("DecodeBech32")
        ELSE Ok([hrp |-> hrp,
                 bytes |-> << >> \o [i \in 1..((5 * Len(data)) \div 8) |->
                                         Group(fes, 5, 8, i)]])

\* nochecksum::decode(text): the tag is the text before the last '1'; the
\* characters after it must all belong to the character set, in one case; whole
\* bytes are taken from their 5-bit values
nochecksum_decode(text) ==
    LET sep == LastIndexOf(text, "1")
        hrp == Take(text, sep - 1)
        data == Drop(text, sep)
        fes == << >> \o [i \in DOMAIN data |-> CharsetValue[ToUpperChar(data[i])]]
    IN  IF \/ sep <= 1
           \/ \E i \in DOMAIN data : ToUpperChar(data[i]) \notin DOMAIN CharsetValue
           \/ /\ \E i \in DOMAIN text : IsLowercase(text[i])
              /\ \E i \in DOMAIN text : IsUppercase(text[i])
        THEN Err("DecodeBech32")
        ELSE Ok([hrp |-> hrp,
                 bytes |-> << >> \o [i \in 1..((5 * Len(data)) \div 8) |->
                                         Group(fes, 5, 8, i)]])

\* Hrp == Hrp: the tags compared without regard to case
HrpEq(a, b) == to_lowercase(a) = to_lowercase(b)

EX == <<"E", "X">>
OH == <<"O", "H">>
RK == <<"R", "K">>

\* SystemTime: whole seconds before or after UNIX_EPOCH, the count a u64 held
\* as its 8 bytes, least significant first
SystemTime(before_epoch, secs) == [before_epoch |-> before_epoch, secs |-> secs]

\* The 8 bytes of a number below 2^31
U64(n) ==
    <<n % 256, (n \div 256) % 256, (n \div 65536) % 256, (n \div 16777216) % 256,
      0, 0, 0, 0>>

\* u32::try_from(u64): the 4 low bytes when the 4 high bytes are zero
u32_try_from(secs) ==
    IF SubSeq(secs, 5, 8) = <<0, 0, 0, 0>> THEN Ok(SubSeq(secs, 1, 4))
    ELSE Err("TryFromIntError")

\* u32::consensus_decode that reads the most significant byte first
u32_consensus_decode_big_endian(bytes) ==
    IF Len(bytes) >= 4 THEN Ok(<<bytes[4], bytes[3], bytes[2], bytes[1]>>)
    ELSE Err("InvalidExp")

\* u32::consensus_decode: 4 bytes, least significant first; fewer is an error
u32_consensus_decode(bytes) ==
    IF Len(bytes) >= 4 THEN Ok(SubSeq(bytes, 1, 4)) ELSE Err("InvalidExp")

\* The compressed public key of the test vector's OhttpKeys (33 bytes), and
\* that key configuration's key id
SamplePubkey ==
    <<3, 186, 72, 196, 156, 61, 74, 146, 163, 173, 0, 236, 198, 58, 2, 77, 161,
      12, 237, 2, 24, 12, 115, 236, 18, 216, 167, 173, 44, 201, 27, 180, 131>>
ValidPubkeys == {SamplePubkey}

\* HpkePublicKey::to_compressed_bytes / from_compressed_bytes
to_compressed_bytes(pubkey) == pubkey
from_compressed_bytes(bytes) ==
    IF bytes \in ValidPubkeys THEN Ok(bytes) ELSE Err("InvalidPubkey")

\* OhttpKeys: a key id and a public key; Display writes them as an OH token,
\* FromStr reads one back
OhttpKeys(key_id, pubkey) == [key_id |-> key_id, pubkey |-> pubkey]
OhttpKeys_to_string(keys) == nochecksum_encode(OH, <<keys.key_id>> \o keys.pubkey)
OhttpKeys_from_str(text) ==
    LET d == nochecksum_decode(text)
    IN  IF /\ d.ok
           /\ HrpEq(d.val.hrp, OH)
           /\ Len(d.val.bytes) = 34
           /\ Tail(d.val.bytes) \in ValidPubkeys
        THEN Ok(OhttpKeys(Head(d.val.bytes), Tail(d.val.bytes)))
        ELSE Err("InvalidOhttpKeys")

-----------------------------------------------------------------------------
(* core/uri/url_ext.rs: the typed accessors (impl UrlExt for Url), on the    *)
(* url's fragment                                                            *)

\* The errors of the getters
AccessErr(kind, arg) == [kind |-> kind, arg |-> arg]
InvalidFragment(e) == AccessErr("InvalidFragment", e)

\* receiver_pubkey(&self)
receiver_pubkey(url_fragment) ==
    LET value == get_param(url_fragment, RK \o <<"1">>)
    IN  IF ~value.ok THEN Err(InvalidFragment(value.val))
        ELSE IF ~value.val.some THEN Err(AccessErr("MissingPubkey", ""))
        ELSE LET d == nochecksum_decode(value.val.val)
             IN  IF ~d.ok THEN Err(AccessErr("DecodeBech32", ""))
                 ELSE IF ~HrpEq(d.val.hrp, RK) THEN Err(AccessErr("InvalidHrp", d.val.hrp))
                 ELSE IF from_compressed_bytes(d.val.bytes).ok
                      THEN from_compressed_bytes(d.val.bytes)
                      ELSE Err(AccessErr("InvalidPubkey", ""))

\* set_receiver_pubkey(&mut self, pubkey)
set_receiver_pubkey(url_fragment, pubkey) ==
    set_param(url_fragment, nochecksum_encode(RK, to_compressed_bytes(pubkey)))

\* ohttp(&self)
ohttp(url_fragment) ==
    LET value == get_param(url_fragment, OH \o <<"1">>)
    IN  IF ~value.ok THEN Err(InvalidFragment(value.val))
        ELSE IF ~value.val.some THEN Err(AccessErr("MissingOhttpKeys", ""))
        ELSE IF OhttpKeys_from_str(value.val.val).ok
             THEN OhttpKeys_from_str(value.val.val)
             ELSE Err(AccessErr("InvalidOhttpKeys", ""))

\* set_ohttp(&mut self, ohttp)
set_ohttp(url_fragment, keys) == set_param(url_fragment, OhttpKeys_to_string(keys))

\* exp(&self)
exp(url_fragment) ==
    LET value == get_param(url_fragment, EX \o <<"1">>)
    IN  IF ~value.ok THEN Err(InvalidFragment(value.val))
        ELSE IF ~value.val.some THEN Err(AccessErr("MissingExp", ""))
        ELSE LET d == nochecksum_decode(value.val.val)
             IN  IF ~d.ok THEN Err(AccessErr("DecodeBech32", ""))
                 ELSE IF ~HrpEq(d.val.hrp, EX) THEN Err(AccessErr("InvalidHrp", d.val.hrp))
                 ELSE IF u32_consensus_decode(d.val.bytes).ok
                      THEN Ok(SystemTime(FALSE, u32_consensus_decode(d.val.bytes).val
                                                   \o <<0, 0, 0, 0>>))
                      ELSE Err(AccessErr("InvalidExp", ""))

\* The token of a set_exp that writes the u32 most significant byte first
ExpToken_big_endian(time) ==
    LET t == IF time.before_epoch THEN Ok(<<0, 0, 0, 0>>) ELSE u32_try_from(time.secs)
    IN  IF t.ok
        THEN Ok(nochecksum_encode(EX, <<t.val[4], t.val[3], t.val[2], t.val[1]>>))
        ELSE Panic(t.val)

\* The token set_exp writes: the seconds since the epoch (0 for a time before
\* it) as a u32, consensus-encoded and bech32-encoded under EX; the unwrap of
\* the conversion to u32 panics
ExpToken(time) ==
    LET t == IF time.before_epoch THEN Ok(<<0, 0, 0, 0>>) ELSE u32_try_from(time.secs)
    IN  IF t.ok THEN Ok(nochecksum_encode(EX, t.val)) ELSE Panic(t.val)

\* set_exp(&mut self, exp)
set_exp(url_fragment, time) ==
    IF ExpToken(time).ok THEN set_param(url_fragment, ExpToken(time).val)
    ELSE ExpToken(time)

-----------------------------------------------------------------------------
(* The typed accessors called, in any order and any number of times, on a    *)
(* Url with a given fragment.                                                *)

ExampleTime == SystemTime(FALSE, U64(1720547781))

\* Times before the epoch, within the u32 range, at its end (2^32 - 1
\* seconds) and past it (2^32 seconds)
Times ==
    {SystemTime(TRUE, U64(1)), ExampleTime,
     SystemTime(FALSE, <<255, 255, 255, 255, 0, 0, 0, 0>>),
     SystemTime(FALSE, <<0, 0, 0, 0, 1, 0, 0, 0>>)}
KeyConfigs == {OhttpKeys(1, SamplePubkey)}
Pubkeys == {SamplePubkey}

\* Tokens of the fragments the accessors start from: a well-formed EX token,
\* an EX token too short for a u32, a token of a tag no accessor knows, and
\* one with a character outside the fragment alphabet
FragTokens ==
    {ExpToken(ExampleTime).val, <<"E", "X", "1", "0">>, <<"A">>, <<"a">>}

\* What stands between two tokens: "-", "+", "++" (an empty token in the
\* gap), or "-+" (both delimiters)
GapDelims == {<<"-">>, <<"+">>, <<"+", "+">>, <<"-", "+">>}

RECURSIVE JoinGaps(_, _)
JoinGaps(ts, gap) ==
    IF Len(ts) = 1 THEN Head(ts)
    ELSE Head(ts) \o gap \o JoinGaps(Tail(ts), gap)

\* No fragment, the empty fragment, and 1..MaxTokens tokens with their gaps
InitFragments ==
    {None, Some(<< >>)} \cup
    {Some(JoinGaps(ts, gap)) :
        ts \in UNION {[1..k -> FragTokens] : k \in 1..MaxTokens}, gap \in GapDelims}

FragInit ==
    /\ frag0 \in InitFragments
    /\ cur_fragment = frag0
    /\ written = {}
    /\ last = NoCall
    /\ fpc = "ready"
    /\ latest = NoneWritten
    /\ pj = DefaultState.pj /\ pjos = DefaultState.pjos
    /\ pc = "accumulating" /\ consumed = << >>
    /\ outcome = None /\ emitted = None /\ reparsed = None
    /\ uri = NoUri /\ checked = None

Call(op, arg, res) == [op |-> op, arg |-> arg, res |-> res]

\* A getter: &self, the fragment stays as it is
Getter(op, res) ==
    /\ fpc = "ready"
    /\ last' = Call(op, None, res)
    /\ UNCHANGED <<frag0, cur_fragment, written, fpc, latest>>
    /\ UNCHANGED parseVars
    /\ UNCHANGED uriVars

\* The two private functions of the store, called on the Url as the accessors
\* call them: check_fragment_delimiter on url.fragment().unwrap_or(""), and
\* get_param with the prefix of each accessor
CheckFragmentDelimiter ==
    Getter("check_fragment_delimiter",
           check_fragment_delimiter(unwrap_or_default(cur_fragment)))

Prefixes == {RK \o <<"1">>, OH \o <<"1">>, EX \o <<"1">>}

GetParam(prefix) ==
    /\ fpc = "ready"
    /\ last' = Call("get_param", Some(prefix), get_param(cur_fragment, prefix))
    /\ UNCHANGED <<frag0, cur_fragment, written, fpc, latest>>
    /\ UNCHANGED parseVars
    /\ UNCHANGED uriVars

ReceiverPubkey == Getter("receiver_pubkey", receiver_pubkey(cur_fragment))
Ohttp == Getter("ohttp", ohttp(cur_fragment))
Exp == Getter("exp", exp(cur_fragment))

\* A setter: &mut self; value is what it is given to write under tag, token
\* what it hands to set_param (None when it panics before), res the fragment
\* it sets or its panic
Setter(op, tag, value, token, res) ==
    /\ fpc = "ready"
    /\ last' = Call(op, token, res)
    /\ IF res.ok
       THEN /\ cur_fragment' = res.val
            /\ written' = written \cup {token.val}
            /\ latest' = [latest EXCEPT ![tag] = Some(value)]
            /\ fpc' = fpc
       ELSE fpc' = "panicked" /\ UNCHANGED <<cur_fragment, written, latest>>
    /\ UNCHANGED frag0
    /\ UNCHANGED parseVars
    /\ UNCHANGED uriVars

SetReceiverPubkey(pubkey) ==
    Setter("set_receiver_pubkey", "RK", pubkey,
           Some(nochecksum_encode(RK, to_compressed_bytes(pubkey))),
           set_receiver_pubkey(cur_fragment, pubkey))

SetOhttp(keys) ==
    Setter("set_ohttp", "OH", keys,
           Some(OhttpKeys_to_string(keys)), set_ohttp(cur_fragment, keys))

SetExp(time) ==
    Setter("set_exp", "EX", time,
           IF ExpToken(time).ok THEN Some(ExpToken(time).val) ELSE None,
           set_exp(cur_fragment, time))

FragNext ==
    \/ ReceiverPubkey
    \/ Ohttp
    \/ Exp
    \/ \E p \in Pubkeys : SetReceiverPubkey(p)
    \/ \E k \in KeyConfigs : SetOhttp(k)
    \/ \E t \in Times : SetExp(t)

FragSpec == FragInit /\ [][FragNext]_vars

\* The setters alone, from the same fragments: the getters take &self and
\* leave the fragment as it is
WriteNext ==
    \/ \E p \in Pubkeys : SetReceiverPubkey(p)
    \/ \E k \in KeyConfigs : SetOhttp(k)
    \/ \E t \in Times : SetExp(t)

WriteSpec == FragInit /\ [][WriteNext]_vars

-----------------------------------------------------------------------------
(* The reads alone (the getters and the two private functions they call), on *)
(* a wider set of fragments.                                                 *)

\* Tokens of the fragments that are only read: the tokens of the parsing tests
\* (well-formed EX and RK tokens, tokens whose tag runs up to a later '1',
\* tokens with too few bytes, an OH token that is no key configuration) and
\* two characters outside the fragment alphabet
ReadTokens ==
    {ExpToken(ExampleTime).val,
     nochecksum_encode(RK, to_compressed_bytes(SamplePubkey)),
     <<"E", "X", "1", "0">>, <<"E", "X", "1", "0", "1", "0">>,
     <<"R", "K", "1", "0">>, <<"R", "K", "1", "0", "1">>,
     <<"O", "H", "1", "Q">>, <<"a">>, <<"b">>}

ReadFragments ==
    {None, Some(<< >>)} \cup
    {Some(JoinGaps(ts, gap)) :
        ts \in UNION {[1..k -> ReadTokens] : k \in 1..MaxTokens}, gap \in GapDelims}

ReadInit ==
    /\ frag0 \in ReadFragments
    /\ cur_fragment = frag0
    /\ written = {}
    /\ last = NoCall
    /\ fpc = "ready"
    /\ latest = NoneWritten
    /\ pj = DefaultState.pj /\ pjos = DefaultState.pjos
    /\ pc = "accumulating" /\ consumed = << >>
    /\ outcome = None /\ emitted = None /\ reparsed = None
    /\ uri = NoUri /\ checked = None

ReadNext ==
    \/ CheckFragmentDelimiter
    \/ \E prefix \in Prefixes : GetParam(prefix)
    \/ ReceiverPubkey
    \/ Ohttp
    \/ Exp

ReadSpec == ReadInit /\ [][ReadNext]_vars

-----------------------------------------------------------------------------
(* The typed accessors called on an endpoint that came out of a parse run,  *)
(* as in test_fragment_delimiter_backwards_compatibility: the URI's pj      *)
(* value is parsed, finalize returns Supported, and the accessors are then  *)
(* called on the endpoint.                                                  *)

\* Fragments of pj values without a lowercase letter: none, one token, two
\* tokens with the legacy delimiter, tokens with both delimiters, and a
\* character that is neither a lowercase letter nor in the fragment alphabet
EndpointFragments ==
    {None,
     Some(ExpToken(ExampleTime).val),
     Some(ExpToken(ExampleTime).val \o <<"+">> \o <<"E", "X", "1", "0">>),
     Some(ExpToken(ExampleTime).val \o <<"-">> \o <<"E", "X", "1", "0">>
            \o <<"+">> \o <<"A">>),
     Some(ExpToken(ExampleTime).val \o <<"_">>)}

EndpointTexts ==
    {as_str(Url(to_uppercase(HTTPS), << >>, <<"A">>, <<"/">>, f)) : f \in EndpointFragments}

EndpointInit ==
    \E text \in EndpointTexts :
        LET params == << <<"pj", Param(TRUE, text)>> >>
            st == StateAfter(DefaultState, params)
            res == ParseRun(DefaultState, params)
        IN  /\ res.ok /\ res.val.tag = "Supported"
            /\ pj = st.pj /\ pjos = st.pjos
            /\ pc = "finalized" /\ consumed = params
            /\ outcome = Some(res) /\ emitted = None /\ reparsed = None
            /\ frag0 = fragment(res.val.endpoint)
            /\ cur_fragment = frag0
            /\ written = {}
            /\ last = NoCall
            /\ fpc = "ready"
            /\ latest = NoneWritten
            /\ uri = NoUri /\ checked = None

EndpointSpec == EndpointInit /\ [][FragNext]_vars

-----------------------------------------------------------------------------
(* check_pj_supported on a parsed URI, as the tests call it after           *)
(* Uri::try_from(..).assume_checked()                                       *)

\* The extras a parse run of at most two parameters returns
UriExtras ==
    LET runs == {<< >>} \cup {<<p>> : p \in QueryParams}
                  \cup {<<p, q>> : p \in {<<"pj", v>> : v \in PjValues},
                                  q \in {<<"pjos", v>> : v \in PjosValues}}
        results == {ParseRun(DefaultState, ps) : ps \in runs}
    IN  {r.val : r \in {r \in results : r.ok}}

\* Addresses (the first characters of those of test_valid_uris), amounts (in
\* satoshis), labels and messages
Addresses == {<<"1", "2", "c">>, <<"t", "b", "1">>}
Amounts == {None, Some(1), Some(1000000)}
Labels == {None, Some(<<"l">>)}
Messages == {None, Some(<<"m">>)}

Uris ==
    {Uri(a, n, l, m, e) :
        a \in Addresses, n \in Amounts, l \in Labels, m \in Messages, e \in UriExtras}

UriInit ==
    /\ uri \in Uris
    /\ checked = None
    /\ frag0 = None /\ cur_fragment = None /\ written = {} /\ last = NoCall /\ fpc = "ready"
    /\ latest = NoneWritten
    /\ pj = DefaultState.pj /\ pjos = DefaultState.pjos
    /\ pc = "accumulating" /\ consumed = << >>
    /\ outcome = None /\ emitted = None /\ reparsed = None

\* check_pj_supported(self): self is consumed, so it is called once
CheckPjSupported ==
    /\ ~checked.some
    /\ checked' = Some(check_pj_supported(uri))
    /\ UNCHANGED uri
    /\ UNCHANGED parseVars
    /\ UNCHANGED fragVars

UriNext == CheckPjSupported

UriSpec == UriInit /\ [][UriNext]_vars

-----------------------------------------------------------------------------
(* Vocabulary of the claims about the parse run *)

KeyAt(i) == consumed[i][1]
ValueAt(i) == consumed[i][2]
Positions(key) == {i \in DOMAIN consumed : KeyAt(i) = key}
FirstOf_key(i) == \A j \in 1..(i-1) : KeyAt(j) # KeyAt(i)

\* finalize has run
Finalized == pc \in {"finalized", "serialized", "reparsed"}
\* the parse run produced Supported(extras)
ParsedSupported == Finalized /\ outcome.val.ok /\ outcome.val.val.tag = "Supported"
\* the parameter at position i made the run fail with error e
FailedAt(i, e) == i = Len(consumed) /\ pc = "failed" /\ outcome = Some(Err(e))

\* The transport-security shape, read off the endpoint's parts
SecureShape(u) ==
    \/ u.scheme = <<"h","t","t","p","s">>
    \/ /\ u.scheme = <<"h","t","t","p">>
       /\ Len(u.host) >= 6
       /\ SubSeq(u.host, Len(u.host) - 5, Len(u.host)) = <<".","o","n","i","o","n">>

-----------------------------------------------------------------------------
(* C1: finalize yields Supported only for an endpoint whose scheme is https, *)
(* or whose scheme is http and whose host is a domain ending in ".onion";    *)
(* when finalize runs on an endpoint of any other shape the parse fails with *)
(* UnsecureEndpoint.  Every Supported value, also one parsed again from its  *)
(* serialization, has the transport-security shape.                          *)
C1_SecurityGate ==
    /\ ParsedSupported => SecureShape(outcome.val.val.endpoint)
    /\ (Finalized /\ pj.some /\ ~SecureShape(pj.val))
            => outcome = Some(Err(UnsecureEndpoint))
    /\ (reparsed.some /\ reparsed.val.ok /\ reparsed.val.val.tag = "Supported")
            => SecureShape(reparsed.val.val.endpoint)

\* finalize has rejected ftp to an onion host
C1_Witness ==
    /\ pc = "finalized"
    /\ pj.some
    /\ pj.val.scheme = FTP
    /\ ends_with(pj.val.host, DotOnion)
    /\ outcome = Some(Err(UnsecureEndpoint))

(* C2: the second occurrence of key pj fails the parse with                  *)
(* DuplicateParams("pj") and the second occurrence of key pjos with          *)
(* DuplicateParams("pjos"), whatever the two values are and whatever lies    *)
(* between them.                                                             *)
C2_Duplicates ==
    \A i \in DOMAIN consumed :
        (KeyAt(i) \in {"pj", "pjos"} /\ ~FirstOf_key(i))
            => FailedAt(i, [kind |-> "DuplicateParams", arg |-> KeyAt(i)])

\* pj, an unknown parameter, then a second pj with another, valid value
C2_Witness ==
    /\ Len(consumed) = 3
    /\ KeyAt(1) = "pj" /\ KeyAt(2) = "amount" /\ KeyAt(3) = "pj"
    /\ ValueAt(1) # ValueAt(3)
    /\ ValueAt(3).utf8 /\ parse_with_fragment(ValueAt(3).text).ok
    /\ FailedAt(3, [kind |-> "DuplicateParams", arg |-> "pj"])

(* C7: in the build with directory-mediated parameters, the first pj whose   *)
(* value is a URL with a lowercase letter anywhere in its fragment is        *)
(* rejected with LowercaseFragment when it is processed, and the state keeps *)
(* no endpoint.                                                              *)
HasLowercaseInFragment(text) ==
    /\ UrlParse(text).ok
    /\ IndexOf(text, "#") # 0
    /\ \E i \in (IndexOf(text, "#") + 1)..Len(text) : IsLowercase(text[i])

C7_LowercaseFragment ==
    \A i \in DOMAIN consumed :
        (/\ KeyAt(i) = "pj" /\ FirstOf_key(i)
         /\ ValueAt(i).utf8 /\ HasLowercaseInFragment(ValueAt(i).text))
            => FailedAt(i, BadEndpoint("LowercaseFragment")) /\ ~pj.some

\* a fragment whose only lowercase letter is not its first character
C7_Witness ==
    /\ Len(consumed) = 2
    /\ KeyAt(1) = "pjos" /\ KeyAt(2) = "pj"
    /\ ValueAt(2).utf8
    /\ ends_with(ValueAt(2).text, <<"#", "E", "X", "1", "a">>)
    /\ FailedAt(2, BadEndpoint("LowercaseFragment"))
    /\ ~pj.some

(* C8: a parse with a valid pj yields the policy Disabled exactly when its   *)
(* single pjos value is "0", and Enabled when it is "1" or when there is no  *)
(* pjos; a pjos with any other value fails with BadPjOs.                     *)
C8_Policy ==
    /\ ParsedSupported =>
          LET at == Positions("pjos")
              policy == outcome.val.val.output_substitution
          IN  /\ policy \in {"Enabled", "Disabled"}
              /\ policy = "Disabled"
                    <=> \E i \in at : ValueAt(i) = Param(TRUE, <<"0">>)
              /\ policy = "Enabled"
                    <=> (at = {} \/ \E i \in at : ValueAt(i) = Param(TRUE, <<"1">>))
              /\ Cardinality(at) <= 1
    /\ \A i \in DOMAIN consumed :
          (/\ KeyAt(i) = "pjos" /\ FirstOf_key(i)
           /\ ValueAt(i) \notin {Param(TRUE, <<"0">>), Param(TRUE, <<"1">>)})
              => FailedAt(i, BadPjOs)

\* a pj without any pjos has been parsed to Supported with policy Enabled
C8_Witness ==
    /\ ParsedSupported
    /\ Positions("pjos") = {}
    /\ Positions("pj") # {}
    /\ outcome.val.val.output_substitution = "Enabled"

(* C9: serializing Supported emits ("pjos","0") if and only if the policy is *)
(* Disabled, no pjos pair for Enabled, and exactly one pj pair, which comes  *)
(* after the pjos pair; serializing Unsupported emits nothing.               *)
C9_Serialization ==
    emitted.some =>
        LET e == emitted.val
            v == outcome.val.val
        IN  IF v.tag = "Unsupported" THEN e = << >>
            ELSE /\ (\E i \in DOMAIN e : e[i] = <<"pjos", <<"0">> >>)
                        <=> v.output_substitution = "Disabled"
                 /\ v.output_substitution = "Enabled"
                        => \A i \in DOMAIN e : e[i][1] # "pjos"
                 /\ Cardinality({i \in DOMAIN e : e[i][1] = "pj"}) = 1
                 /\ \A i, j \in DOMAIN e :
                        (e[i][1] = "pjos" /\ e[j][1] = "pj") => i < j
                 /\ Cardinality({i \in DOMAIN e : e[i][1] = "pjos"}) <= 1

\* a Supported value with policy Disabled has been serialized to two pairs
C9_Witness ==
    /\ emitted.some
    /\ outcome.val.val.tag = "Supported"
    /\ outcome.val.val.output_substitution = "Disabled"
    /\ Len(emitted.val) = 2

(* C10: when finalize runs on a sequence without pj it yields Unsupported if *)
(* no pjos was seen and MissingEndpoint if one was; Unsupported is never     *)
(* produced for a sequence that contains a pj.                               *)
C10_NoEndpoint ==
    /\ (Finalized /\ Positions("pj") = {}) =>
          IF Positions("pjos") = {}
          THEN outcome = Some(Ok(Unsupported))
          ELSE outcome = Some(Err(MissingEndpoint))
    /\ (outcome.some /\ outcome.val.ok /\ outcome.val.val.tag = "Unsupported")
          => Positions("pj") = {}

\* finalize has run on a pjos and an unknown parameter, without pj
C10_Witness ==
    /\ pc = "finalized"
    /\ Positions("pj") = {}
    /\ Positions("pjos") # {}
    /\ Positions("amount") # {}
    /\ outcome = Some(Err(MissingEndpoint))

(* C3: round trip: for every Supported value, feeding the pairs emitted by   *)
(* serialize_params back through deserialize_temp, in emission order, and    *)
(* then finalize yields Supported with an equal endpoint and an equal policy.*)
C3_RoundTrip ==
    (reparsed.some /\ outcome.val.val.tag = "Supported")
        => reparsed.val = Ok(Supported(outcome.val.val.endpoint,
                                       outcome.val.val.output_substitution))

-----------------------------------------------------------------------------
(* Vocabulary of the claims about the fragment store *)

Reads == {"receiver_pubkey", "ohttp", "exp"}
Writes == {"set_receiver_pubkey", "set_ohttp", "set_exp"}

InAlphabet(f) == f.some /\ \A i \in DOMAIN f.val : f.val[i] \in FragmentBytes
Mixed(f) == f.some /\ contains(f.val, "-") /\ contains(f.val, "+")
Legacy(f) == InAlphabet(f) /\ contains(f.val, "+") /\ ~contains(f.val, "-")

\* The non-empty tokens of a fragment that uses one delimiter
TokensOf(f) ==
    IF f.some
    THEN NonEmpty(split(f.val, IF contains(f.val, "+") THEN "+" ELSE "-"))
    ELSE << >>

\* The pieces of the current fragment between its '-'
CurTokens == IF cur_fragment.some THEN split(cur_fragment.val, "-") ELSE << >>

OnePerTag(tokens) == \A a, b \in tokens : KeyOf(a) = KeyOf(b) => a = b
LastOfTag(ts, i) == \A j \in (i + 1)..Len(ts) : KeyOf(ts[j]) # KeyOf(ts[i])
Ascending(ts) ==
    \A i, j \in DOMAIN ts : i < j => StrLess(KeyOf(ts[i]), KeyOf(ts[j]))

\* The tokens a fragment f0 holds once the tokens W were written to it: W, and
\* for each tag W does not write the last token f0 held for it
Expected(f0, W) ==
    LET ts == TokensOf(f0)
    IN  W \cup {ts[i] : i \in {i \in DOMAIN ts :
                    LastOfTag(ts, i) /\ \A w \in W : KeyOf(w) # KeyOf(ts[i])}}

\* C4: whatever the order and the repetitions of the setter calls, once they
\* have written a set of tokens with one token per tag the fragment is the same
\* text: exactly the written tokens and the tokens the first fragment held for
\* the other tags, in strictly ascending order of tag, joined with '-'.
C4_Canonicalization ==
    (written # {} /\ OnePerTag(written)) =>
        /\ cur_fragment.some
        /\ ~contains(cur_fragment.val, "+")
        /\ Range(CurTokens) = Expected(frag0, written)
        /\ Ascending(CurTokens)

C4_Witness ==
    /\ Cardinality(written) = 3 /\ OnePerTag(written)
    /\ Len(TokensOf(frag0)) = 2 /\ Len(CurTokens) = 4
    /\ last.op = "set_receiver_pubkey" /\ last.res.ok

\* C5, as stated: on a fragment that uses only '+', reads change nothing and
\* the first setter call leaves no '+' and keeps every token of a tag it did
\* not write.
C5_EveryTokenKept ==
    Legacy(frag0) =>
        /\ written = {} => cur_fragment = frag0
        /\ \A w \in written : written = {w} =>
              /\ cur_fragment.some
              /\ ~contains(cur_fragment.val, "+")
              /\ \A i \in DOMAIN TokensOf(frag0) :
                    KeyOf(TokensOf(frag0)[i]) # KeyOf(w)
                        => TokensOf(frag0)[i] \in Range(CurTokens)

\* C5: on a fragment that uses only '+', reads change nothing, and the first
\* setter call leaves no '+' and joins with '-' the token it wrote and, for
\* every other tag, the last token the fragment held for that tag with its text
\* unchanged; earlier tokens of a repeated tag are dropped.
C5_DelimiterUpgrade ==
    Legacy(frag0) =>
        /\ written = {} => cur_fragment = frag0
        /\ \A w \in written : written = {w} =>
              /\ cur_fragment.some
              /\ ~contains(cur_fragment.val, "+")
              /\ Range(CurTokens) = Expected(frag0, {w})
              /\ Len(CurTokens) = Cardinality(Expected(frag0, {w}))

C5_Witness ==
    /\ Legacy(frag0)
    /\ \E i, j \in DOMAIN TokensOf(frag0) :
          /\ i < j
          /\ KeyOf(TokensOf(frag0)[i]) = KeyOf(TokensOf(frag0)[j])
          /\ TokensOf(frag0)[i] # TokensOf(frag0)[j]
    /\ Cardinality(written) = 1
    /\ last.op = "set_ohttp" /\ last.res.ok

\* C6, as stated: on a fragment with both '-' and '+', every read returns
\* AmbiguousDelimiter and every write stops with AmbiguousDelimiter.
C6_AlwaysAmbiguous ==
    Mixed(cur_fragment) =>
        /\ last.op \in Reads => last.res = Err(InvalidFragment(AmbiguousDelimiter))
        /\ last.op \in Writes => last.res = Panic(AmbiguousDelimiter)

\* The structure error of a fragment with both delimiters: its first character
\* outside the alphabet when it has one, the ambiguity otherwise
StructureError(f) ==
    LET bad == {i \in DOMAIN f.val : f.val[i] \notin FragmentBytes}
    IN  IF bad = {} THEN AmbiguousDelimiter
        ELSE InvalidChar(f.val[CHOOSE i \in bad : \A j \in bad : i <= j])

\* C6: on a fragment with both '-' and '+' whose characters all belong to the
\* alphabet, every read returns InvalidFragment(AmbiguousDelimiter) and every
\* write that reaches set_param panics with AmbiguousDelimiter; when the
\* fragment also holds a character outside the alphabet the error is
\* InvalidChar of the first such character instead; and set_exp of a time more
\* than u32::MAX seconds after the epoch panics on the conversion before it
\* looks at the fragment.
C6_Ambiguity ==
    Mixed(cur_fragment) =>
        /\ last.op \in Reads =>
              last.res = Err(InvalidFragment(StructureError(cur_fragment)))
        /\ last.op \in Writes =>
              last.res = IF last.op = "set_exp" /\ ~last.arg.some
                         THEN Panic("TryFromIntError")
                         ELSE Panic(StructureError(cur_fragment))

C6_Witness ==
    /\ Mixed(cur_fragment) /\ InAlphabet(cur_fragment)
    /\ last.op = "set_ohttp"
    /\ last.res = Panic(AmbiguousDelimiter)
    /\ fpc = "panicked"

-----------------------------------------------------------------------------
(* Claims about whole parse runs *)

\* The orders in which n parameters can be presented
Orders ==
    [n \in 0..MaxParams |->
        {f \in [1..n -> 1..n] : \A i, j \in 1..n : f[i] = f[j] => i = j}]
Reordered(params, f) == [i \in DOMAIN params |-> params[f[i]]]

\* The run has ended: finalize has returned, or the last parameter consumed
\* was rejected
RunEnded == pc \in {"finalized", "failed"}
SinglePjAndPjos ==
    Cardinality(Positions("pj")) <= 1 /\ Cardinality(Positions("pjos")) <= 1

\* The pj and pjos parameters whose key the run has not consumed
OtherKeyParams ==
    {q \in QueryParams : q[1] \in {"pj", "pjos"} /\ Positions(q[1]) = {}}

\* deserialize_temp rejects the parameter whatever came before it
Rejected(q) == ~deserialize_temp(DefaultState, q[1], q[2]).ret.ok

\* Two results are equal
SameResult(a, b) == a.ok = b.ok /\ a.val = b.val

\* C19, as stated: two sequences with the same single pj and the same single
\* pjos that differ only in the order of their parameters parse to equal
\* results, and equal values serialize to identical pairs.
C19_AnyOrder ==
    (RunEnded /\ SinglePjAndPjos) =>
        /\ \A f \in Orders[Len(consumed)] :
              SameResult(ParseRun(DefaultState, Reordered(consumed, f)), outcome.val)
        /\ pc = "failed" =>
              \A q \in OtherKeyParams :
                  SameResult(ParseRun(DefaultState, <<q>> \o consumed),
                             ParseRun(DefaultState, Append(consumed, q)))

\* C19: two sequences with the same single pj and the same single pjos that
\* differ only in the order of their parameters parse to equal results, and so
\* to identical serialized pairs, when deserialize_temp rejects at most one of
\* their parameters; when it rejects both the pj and the pjos value, each
\* sequence fails with the error of the one it presents first.
C19_OrderIndependence ==
    (RunEnded /\ SinglePjAndPjos) =>
        /\ \A f \in Orders[Len(consumed)] :
              LET r == ParseRun(DefaultState, Reordered(consumed, f))
              IN  /\ SameResult(r, outcome.val)
                  /\ r.ok => serialize_params(r.val) = serialize_params(outcome.val.val)
        /\ pc = "failed" =>
              \A q \in OtherKeyParams :
                  /\ SameResult(ParseRun(DefaultState, Append(consumed, q)), outcome.val)
                  /\ ~Rejected(q) =>
                        SameResult(ParseRun(DefaultState, <<q>> \o consumed), outcome.val)
                  /\ Rejected(q) =>
                        SameResult(ParseRun(DefaultState, <<q>> \o consumed),
                                   Err(deserialize_temp(DefaultState, q[1], q[2]).ret.val))

\* finalize has returned Supported for pjos, an unknown parameter and pj,
\* presented in that order
C19_Witness ==
    /\ pc = "finalized"
    /\ Len(consumed) = 3
    /\ KeyAt(1) = "pjos" /\ KeyAt(2) \in UnknownKeys /\ KeyAt(3) = "pj"
    /\ outcome.val.ok /\ outcome.val.val.tag = "Supported"
    /\ outcome.val.val.output_substitution = "Disabled"

\* Replaying the parameters from position i in state st: the position of the
\* first one deserialize_temp rejects (0 when there is none) and its error
RECURSIVE FirstError(_, _, _)
FirstError(st, params, i) ==
    IF i > Len(params) THEN [at |-> 0, err |-> None]
    ELSE LET r == deserialize_temp(st, params[i][1], params[i][2])
         IN  IF r.ret.ok THEN FirstError(r.st, params, i + 1)
             ELSE [at |-> i, err |-> Some(r.ret.val)]

\* What a run shows at each point: nothing while it accumulates; after a
\* failure the error of the first rejected parameter, which is the last one
\* consumed, and no value; after finalize the result of the whole run, every
\* parameter having been accepted
FailFastState ==
    LET fe == FirstError(DefaultState, consumed, 1)
    IN  /\ pc = "accumulating" => (~outcome.some /\ fe.at = 0)
        /\ pc = "failed" =>
              /\ fe.at = Len(consumed) /\ fe.at > 0
              /\ outcome = Some(Err(fe.err.val))
        /\ Finalized =>
              /\ fe.at = 0
              /\ outcome = Some(ParseRun(DefaultState, consumed))
        /\ (outcome.some /\ outcome.val.ok) =>
              (Finalized /\ outcome.val.val.tag \in {"Supported", "Unsupported"})

\* What a step may do: finalize runs from the accumulating state only, and
\* once a run has a result no step consumes a parameter, changes the state
\* or changes the result
FailFastStep ==
    /\ (pc' = "finalized" /\ pc # "finalized") => (pc = "accumulating" /\ ~outcome.some)
    /\ pc' = "accumulating" => pc = "accumulating"
    /\ pc = "failed" => pc' = "failed"
    /\ outcome.some => UNCHANGED <<outcome, pj, pjos, consumed>>

-----------------------------------------------------------------------------
(* Claims about the reads *)

\* The alphabet of a fragment: 0-9, A-Z, '-' and '+'
ClaimAlphabet ==
    {"0", "1", "2", "3", "4", "5", "6", "7", "8", "9",
     "A", "B", "C", "D", "E", "F", "G", "H", "I", "J", "K", "L", "M",
     "N", "O", "P", "Q", "R", "S", "T", "U", "V", "W", "X", "Y", "Z", "-", "+"}

\* A result that is Ok(v), a result that is Err(e)
IsOk(r, v) == r.ok /\ r.val = v
IsErr(r, e) == ~r.ok /\ r.val = e

\* The text check_fragment_delimiter and set_param look at
FragmentText == IF cur_fragment.some THEN cur_fragment.val ELSE << >>

\* C11: check_fragment_delimiter fails with InvalidChar(c), c a character of
\* the fragment outside the alphabet, if there is one; otherwise fails with
\* AmbiguousDelimiter if both '-' and '+' occur; otherwise returns '+' if '+'
\* occurs; otherwise returns '-', also for the empty fragment and for a
\* fragment without delimiter.
C11_DetermineDelimiter ==
    last.op = "check_fragment_delimiter" =>
        LET f == FragmentText
            outside == {i \in DOMAIN f : f[i] \notin ClaimAlphabet}
        IN  IF outside # {}
            THEN \E i \in outside : IsErr(last.res, InvalidChar(f[i]))
            ELSE IF (\E i \in DOMAIN f : f[i] = "-") /\ (\E i \in DOMAIN f : f[i] = "+")
            THEN IsErr(last.res, AmbiguousDelimiter)
            ELSE IF \E i \in DOMAIN f : f[i] = "+"
            THEN IsOk(last.res, "+")
            ELSE IsOk(last.res, "-")

\* check_fragment_delimiter has answered '+' for two tokens with "++" between
C11_Witness ==
    /\ last.op = "check_fragment_delimiter"
    /\ IsOk(last.res, "+")
    /\ Len(split(FragmentText, "+")) = 3

\* The structure error of a fragment that has one: InvalidChar of its first
\* character outside the alphabet, AmbiguousDelimiter when it has none
StructureErrorOf(f) ==
    LET outside == {i \in DOMAIN f : f[i] \notin ClaimAlphabet}
    IN  IF outside = {} THEN AmbiguousDelimiter
        ELSE InvalidChar(f[CHOOSE i \in outside : \A j \in outside : i <= j])

HasStructureError(f) ==
    \/ \E i \in DOMAIN f : f[i] \notin ClaimAlphabet
    \/ (\E i \in DOMAIN f : f[i] = "-") /\ (\E i \in DOMAIN f : f[i] = "+")

\* A getter result that is the error of the given kind and argument
IsAccessErr(r, kind, arg) == ~r.ok /\ r.val.kind = kind /\ r.val.arg = arg

\* C17: every typed getter called on a Url whose fragment has a character
\* outside the alphabet, or both delimiters, returns InvalidFragment of the
\* structure error, whether or not the fragment holds a token of the getter's
\* tag and whether or not that token is well formed.
C17_InvalidFragmentFirst ==
    (last.op \in Reads /\ cur_fragment.some /\ HasStructureError(cur_fragment.val))
        => IsAccessErr(last.res, "InvalidFragment", StructureErrorOf(cur_fragment.val))

\* exp has returned InvalidFragment(InvalidChar) for a fragment that holds an
\* EX token with too few bytes
C17_Witness ==
    /\ last.op = "exp"
    /\ cur_fragment.val = <<"E", "X", "1", "0", "-", "a">>
    /\ IsAccessErr(last.res, "InvalidFragment", InvalidChar("a"))

\* The pieces of a structurally valid fragment, in fragment order, and the
\* positions of those that start with prefix
PiecesOf(f) ==
    IF f.some
    THEN split(f.val, IF \E i \in DOMAIN f.val : f.val[i] = "+" THEN "+" ELSE "-")
    ELSE << >>
Matches(f, prefix) == {i \in DOMAIN PiecesOf(f) : starts_with(PiecesOf(f)[i], prefix)}

\* C18: on a structurally valid fragment get_param returns the first token, in
\* fragment order, whose text starts with the prefix, and absence, not an
\* error, when no token does or the Url has no fragment; receiver_pubkey, ohttp
\* and exp turn that absence into MissingPubkey, MissingOhttpKeys, MissingExp.
C18_GetToken ==
    (~cur_fragment.some \/ ~HasStructureError(cur_fragment.val)) =>
        /\ last.op = "get_param" =>
              LET m == Matches(cur_fragment, last.arg.val)
              IN  IF m = {} THEN IsOk(last.res, None)
                  ELSE IsOk(last.res,
                            Some(PiecesOf(cur_fragment)[CHOOSE i \in m : \A j \in m : i <= j]))
        /\ (last.op = "receiver_pubkey" /\ Matches(cur_fragment, <<"R", "K", "1">>) = {})
              => IsAccessErr(last.res, "MissingPubkey", "")
        /\ (last.op = "ohttp" /\ Matches(cur_fragment, <<"O", "H", "1">>) = {})
              => IsAccessErr(last.res, "MissingOhttpKeys", "")
        /\ (last.op = "exp" /\ Matches(cur_fragment, <<"E", "X", "1">>) = {})
              => IsAccessErr(last.res, "MissingExp", "")

\* get_param has returned the first of two different tokens that start with
\* "EX1", with an empty piece between them
C18_Witness ==
    /\ last.op = "get_param"
    /\ last.arg.val = <<"E", "X", "1">>
    /\ Len(PiecesOf(cur_fragment)) = 3
    /\ Matches(cur_fragment, <<"E", "X", "1">>) = {1, 3}
    /\ PiecesOf(cur_fragment)[1] # PiecesOf(cur_fragment)[3]
    /\ IsOk(last.res, Some(PiecesOf(cur_fragment)[1]))

-----------------------------------------------------------------------------
(* Claims about the writes *)

\* C12: after a setter call, and so after any sequence of setter calls, the
\* fragment holds at most one token per tag, and the token it holds for the tag
\* just written is the one the latest call wrote, also when the first fragment
\* held several tokens with that tag.
C12_OneTokenPerTag ==
    /\ written # {} =>
          /\ cur_fragment.some
          /\ \A i, j \in DOMAIN CurTokens :
                KeyOf(CurTokens[i]) = KeyOf(CurTokens[j]) => i = j
    /\ (last.op \in Writes /\ last.res.ok) =>
          /\ \E i \in DOMAIN CurTokens : CurTokens[i] = last.arg.val
          /\ \A i \in DOMAIN CurTokens :
                KeyOf(CurTokens[i]) = KeyOf(last.arg.val) => CurTokens[i] = last.arg.val

\* set_exp has overwritten an EX token written before, on a fragment that
\* first held two EX tokens
C12_Witness ==
    /\ Len(TokensOf(frag0)) = 2
    /\ \A i \in DOMAIN TokensOf(frag0) : KeyOf(TokensOf(frag0)[i]) = EX
    /\ TokensOf(frag0)[1] # TokensOf(frag0)[2]
    /\ Cardinality({w \in written : KeyOf(w) = EX}) = 2
    /\ last.op = "set_exp" /\ last.res.ok
    /\ last.arg.val \notin Range(TokensOf(frag0))

\* C13: after a typed-setter call made on a fragment that satisfies the setter
\* precondition has returned, the fragment is in canonical form: it is not
\* empty, holds no '+', check_fragment_delimiter accepts it with '-', and its
\* tokens are in strictly ascending order of tag; so the precondition holds
\* again, and every further setter call keeps this form.
C13_CanonicalForm ==
    (written # {} \/ (last.op \in Writes /\ last.res.ok)) =>
        /\ cur_fragment.some
        /\ Len(cur_fragment.val) > 0
        /\ \A i \in DOMAIN cur_fragment.val :
              cur_fragment.val[i] \in ClaimAlphabet \ {"+"}
        /\ IsOk(check_fragment_delimiter(cur_fragment.val), "-")
        /\ Ascending(CurTokens)

\* Two setters have written to a fragment that first held two tokens with '+'
\* between them
C13_Witness ==
    /\ Legacy(frag0) /\ Len(TokensOf(frag0)) = 2
    /\ Cardinality(written) = 2 /\ OnePerTag(written)
    /\ Len(CurTokens) >= 3
    /\ last.op = "set_ohttp" /\ last.res.ok

\* C14: once set_exp(t), with t from the epoch up to 2^32 - 1 seconds after
\* it, set_ohttp(k) or set_receiver_pubkey(p) has returned, the matching getter
\* returns the value the latest such call wrote, whatever the fragment held
\* before and whatever setters of other tags were called since.
C14_ReadAfterWrite ==
    /\ (last.op = "exp" /\ latest.EX.some /\ ~latest.EX.val.before_epoch)
          => IsOk(last.res, latest.EX.val)
    /\ (last.op = "ohttp" /\ latest.OH.some) => IsOk(last.res, latest.OH.val)
    /\ (last.op = "receiver_pubkey" /\ latest.RK.some)
          => IsOk(last.res, latest.RK.val)

\* exp has read back 2^32 - 1 seconds, written over an earlier EX token of a
\* fragment to which the other two setters have written as well
C14_Witness ==
    /\ last.op = "exp"
    /\ latest.EX = Some(SystemTime(FALSE, <<255, 255, 255, 255, 0, 0, 0, 0>>))
    /\ latest.OH.some /\ latest.RK.some
    /\ \E i \in DOMAIN TokensOf(frag0) : KeyOf(TokensOf(frag0)[i]) = EX
    /\ Cardinality({w \in written : KeyOf(w) = EX}) = 2
    /\ last.res.ok

\* C15: set_exp of the time 1720547781 seconds after the epoch on a Url
\* without fragment sets exactly the fragment "EX1C4UC6ES", and exp on the
\* fragment "EX1C4UC6ES" returns exactly 1720547781 seconds after the epoch.
C15_ExampleVector ==
    /\ (/\ frag0 = None
        /\ Cardinality(written) = 1
        /\ latest.EX = Some(SystemTime(FALSE, U64(1720547781))))
          => cur_fragment = Some(<<"E", "X", "1", "C", "4", "U", "C", "6", "E", "S">>)
    /\ (/\ cur_fragment = Some(<<"E", "X", "1", "C", "4", "U", "C", "6", "E", "S">>)
        /\ last.op = "exp")
          => IsOk(last.res, SystemTime(FALSE, U64(1720547781)))

\* set_exp has written the example time to a Url without fragment and exp has
\* read it back
C15_Witness ==
    /\ frag0 = None
    /\ Cardinality(written) = 1
    /\ latest.EX = Some(SystemTime(FALSE, U64(1720547781)))
    /\ Len(cur_fragment.val) = 10
    /\ last.op = "exp" /\ last.res.ok

\* A fragment that satisfies the precondition of set_param
ValidStructure(f) == ~f.some \/ (InAlphabet(f) /\ ~Mixed(f))

\* C16: set_exp never fails: for every time, on a fragment that satisfies the
\* setter precondition, it returns having written the EX token of the seconds
\* since the epoch as a u32, 0 for every time before the epoch.
C16_SetExpNeverFails ==
    (last.op = "set_exp" /\ ValidStructure(cur_fragment)) =>
        /\ last.res.ok
        /\ last.arg.some
        /\ \E i \in DOMAIN CurTokens : CurTokens[i] = last.arg.val

-----------------------------------------------------------------------------
(* Claims about the emitted pj text, the keys and the token tags *)

\* The textual form of u in which exactly the scheme and the host are
\* upper-cased
UpperSchemeAndHost(u) ==
    to_uppercase(u.scheme) \o <<":", "/", "/">>
      \o (IF u.username = <<>> THEN <<>> ELSE u.username \o <<"@">>)
      \o to_uppercase(u.host) \o u.path
      \o (IF u.fragment.some THEN <<"#">> \o u.fragment.val ELSE <<>>)

\* The value of the pj pair among the emitted pairs
EmittedPj ==
    LET at == CHOOSE i \in DOMAIN emitted.val : emitted.val[i][1] = "pj"
    IN  emitted.val[at][2]

\* C21: for every valid endpoint, also one whose host text occurs earlier in
\* the text, the emitted pj text is the endpoint's text with exactly the
\* scheme and the host upper-cased and every other part unchanged.
C21_OnlySchemeAndHost ==
    (emitted.some /\ outcome.val.val.tag = "Supported")
        => EmittedPj = UpperSchemeAndHost(outcome.val.val.endpoint)

\* The consumed parameters whose key is exactly "pj" or "pjos"
IsKnownParam(q) == q[1] \in {"pj", "pjos"}
KnownConsumed == SelectSeq(consumed, IsKnownParam)

\* C22: a parameter with any key other than exactly "pj" and "pjos" (also
\* "PJ", "Pjos", "amount") is not known, its step returns Unknown and leaves
\* both fields of the state as they were, it never ends the run with an
\* error, and the result of the run is that of the run without the unknown
\* parameters.
C22_UnknownKeys ==
    /\ \A i \in DOMAIN consumed :
          ~IsKnownParam(consumed[i]) =>
              LET before == StateAfter(DefaultState, Take(consumed, i - 1))
                  r == deserialize_temp(before, KeyAt(i), ValueAt(i))
              IN  /\ ~is_param_known(KeyAt(i))
                  /\ r.ret.ok /\ r.ret.val = "Unknown"
                  /\ r.st = before
                  /\ ~(pc = "failed" /\ i = Len(consumed))
    /\ DeserializationState(pj, pjos) = StateAfter(DefaultState, KnownConsumed)
    /\ outcome.some => SameResult(outcome.val, ParseRun(DefaultState, KnownConsumed))

\* finalize has returned Supported after pj between the unknown keys PJ and
\* Pjos
C22_Witness ==
    /\ pc = "finalized"
    /\ Len(consumed) = 3
    /\ KeyAt(1) = "PJ" /\ KeyAt(2) = "pj" /\ KeyAt(3) = "Pjos"
    /\ outcome.val.ok /\ outcome.val.val.tag = "Supported"
    /\ ~pjos.some

\* The token a getter selects with its prefix, when there is one
Selected(prefix) ==
    LET got == get_param(cur_fragment, prefix)
    IN  IF got.ok THEN got.val ELSE None

\* The tag of a token: everything before its last '1'; the payload after it
\* and the number of whole bytes it holds
LastOne(tok) == CHOOSE i \in DOMAIN tok : tok[i] = "1" /\ \A j \in DOMAIN tok : tok[j] = "1" => j <= i
TagText(tok) == SubSeq(tok, 1, LastOne(tok) - 1)
Payload(tok) == SubSeq(tok, LastOne(tok) + 1, Len(tok))
PayloadBytes(tok) == (5 * Len(Payload(tok))) \div 8
Decodable(tok) == \A i \in DOMAIN Payload(tok) : Payload(tok)[i] \in DOMAIN CharsetValue

\* The getter's answer is the error kind, carrying the tag arg
AnswersErr(kind, arg) == IsAccessErr(last.res, kind, arg)

\* What exp and receiver_pubkey answer on a selected, decodable token: with a
\* tag other than the expected one InvalidHrp of that tag, with the expected
\* tag and too few payload bytes InvalidExp / InvalidPubkey
TagChecked(op, prefix, tag, needed, invalid) ==
    (last.op = op /\ Selected(prefix).some /\ Decodable(Selected(prefix).val)) =>
        LET tok == Selected(prefix).val
        IN  /\ TagText(tok) # tag => AnswersErr("InvalidHrp", TagText(tok))
            /\ (TagText(tok) = tag /\ PayloadBytes(tok) < needed) => AnswersErr(invalid, "")

-----------------------------------------------------------------------------
(* Claims about the accessors on a parsed endpoint *)

\* C24: every endpoint accepted by parsing (parse_with_fragment succeeded and
\* finalize returned Supported) has a fragment that satisfies the precondition
\* of set_param, so that every typed setter called on it that reaches
\* set_param completes.
C24_ParsedFragmentValid ==
    ParsedSupported =>
        /\ ValidStructure(fragment(outcome.val.val.endpoint))
        /\ (last.op \in Writes /\ last.arg.some) => last.res.ok

\* The prefix of the tag a setter writes
WrittenPrefix(op) ==
    CASE op = "set_receiver_pubkey" -> RK \o <<"1">>
      [] op = "set_ohttp" -> OH \o <<"1">>
      [] op = "set_exp" -> EX \o <<"1">>

\* The step is a setter call that returned
SetterReturns == fpc = "ready" /\ last'.op \in Writes /\ last'.res.ok

\* The tokens among pieces that begin with prefix, in fragment order
TokensWith(pieces, prefix) == SelectSeq(pieces, LAMBDA t : starts_with(t, prefix))

\* The prefixes of the tags the step's setter does not write
OtherPrefixes == Prefixes \ {WrittenPrefix(last'.op)}

\* C25, as stated: on every fragment that satisfies the setter precondition,
\* also one holding several tokens with the same tag, a setter of one tag
\* leaves the token get_param returns for every other tag unchanged.
C25_FrameAlways ==
    [][SetterReturns =>
          \A prefix \in OtherPrefixes :
              LET before == get_param(cur_fragment, prefix)
                  after == get_param(cur_fragment', prefix)
              IN  before.ok /\ after.ok /\ after.val = before.val]_vars

\* C25: on every fragment that satisfies the setter precondition, a setter of
\* one tag leaves the token get_param returns for every other tag unchanged
\* when the fragment holds at most one token of that other tag; when it holds
\* several, get_param returns the first of them before the write and the last
\* of them after it.
C25_Frame ==
    [][SetterReturns =>
          LET pieces == PiecesOf(cur_fragment)
          IN  \A prefix \in OtherPrefixes :
                  LET toks == TokensWith(pieces, prefix)
                      before == get_param(cur_fragment, prefix)
                      after == get_param(cur_fragment', prefix)
                  IN  /\ before.ok /\ after.ok
                      /\ Len(toks) <= 1 => after.val = before.val
                      /\ toks = << >> => ~after.val.some
                      /\ toks # << >> =>
                            /\ before.val = Some(toks[1])
                            /\ after.val = Some(toks[Len(toks)])]_vars

\* set_ohttp has returned on a first fragment that held one EX token and no OH
\* token, and get_param still returns that EX token
C25_Witness ==
    /\ last.op = "set_ohttp" /\ last.res.ok
    /\ written = {last.arg.val}
    /\ Cardinality(Matches(frag0, EX \o <<"1">>)) = 1
    /\ Matches(frag0, OH \o <<"1">>) = {}
    /\ get_param(frag0, EX \o <<"1">>).ok
    /\ get_param(frag0, EX \o <<"1">>).val.some
    /\ get_param(cur_fragment, EX \o <<"1">>).ok
    /\ get_param(cur_fragment, EX \o <<"1">>).val = get_param(frag0, EX \o <<"1">>).val

-----------------------------------------------------------------------------
(* Claims about check_pj_supported *)

\* The returned URI carries the address, amount, label and message of u
SameBasics(u, r) ==
    /\ r.address = u.address
    /\ r.amount = u.amount
    /\ r.label = u.label
    /\ r.message = u.message

\* C26: check_pj_supported returns Ok exactly when the extras are Supported
\* and Err exactly when they are Unsupported; in both outcomes the returned
\* URI carries the address, amount, label and message of the input, and in
\* the Ok outcome the endpoint and the policy are those of the input.
C26_CheckPjSupported ==
    checked.some =>
        /\ checked.val.ok <=> pj_is_supported(uri.extras)
        /\ ~checked.val.ok <=> uri.extras.tag = "Unsupported"
        /\ SameBasics(uri, checked.val.val)
        /\ checked.val.ok =>
              /\ checked.val.val.extras.endpoint = uri.extras.endpoint
              /\ checked.val.val.extras.output_substitution
                    = uri.extras.output_substitution

\* check_pj_supported has returned Err for a URI with amount, label and
\* message and Unsupported extras
C26_Witness ==
    /\ checked.some /\ ~checked.val.ok
    /\ uri.extras.tag = "Unsupported"
    /\ uri.amount.some /\ uri.label.some /\ uri.message.some
    /\ checked.val.val.label = uri.label

====
